---- MODULE Spec2Model ----
(***************************************************************************)
(* Model of the image-pixel-diff extension (src/src/extension.ts): the     *)
(* three commands, GitService, FileService, DiffImageGenerator and         *)
(* DiffViewerService, with the pngjs / pixelmatch calls they make, the     *)
(* command line GitService hands to the shell, and the script of the diff  *)
(* viewer page.                                                            *)
(*                                                                         *)
(* A pixel is one RGBA quadruple; an image buffer holds width*height       *)
(* pixels in row-major order, i.e. 4*width*height bytes.                   *)
(***************************************************************************)
EXTENDS Integers, Sequences, FiniteSets, TLC

\* ------------------------------------------------------------------ bounds
MaxPixels == 4
MaxRequests == 1
MaxConcurrent == 3
MaxNameLen == 3

\* --------------------------------------------------------------- utilities
Max(a, b) == IF a >= b THEN a ELSE b
Min(a, b) == IF a <= b THEN a ELSE b

\* ------------------------------------------------------------------ state
VARIABLES
  workspaceFolders,   \* the open workspace folders ({}: none)
  nreq,               \* number of command invocations so far
  pc,                 \* per invocation: where its handler stands
  call,               \* per invocation: the command and its arguments
  previousImageData,  \* per invocation: what getVersion resolved to
  fileData,           \* per invocation: the settled readFile promises
  gen,                \* per invocation: the run of DiffImageGenerator.generate
  pending,            \* per invocation: what the .then callback closes over
  panel,              \* per invocation: the webview panel
  notifications,      \* per invocation: messages shown to the user
  consoleLog,         \* per invocation: console output
  fsReads,            \* per invocation: files read
  gitRuns,            \* per invocation: git commands run
  view                \* per invocation: the document and script state of its page

vars == <<workspaceFolders, nreq, pc, call, previousImageData, fileData, gen,
          pending, panel, notifications, consoleLog, fsReads, gitRuns, view>>

\* ------------------------------------------------------------------ pixels
Transparent == <<0, 0, 0, 0>>
Red == <<255, 0, 0, 255>>
White == <<255, 255, 255, 255>>
Colors == {Transparent, Red}

\* ------------------------------------------------- byte blobs (Buffer|null)
\* A Buffer is modelled by what it decodes to: a PNG with its pixel grid, or
\* bytes of another format (JPEG, truncated data) that pngjs rejects.
NoData == << >>
Null == [fmt |-> "null", width |-> 0, height |-> 0, data |-> NoData]
Jpeg == [fmt |-> "jpeg", width |-> 0, height |-> 0, data |-> NoData]
PngBlob(w, h, d) == [fmt |-> "png", width |-> w, height |-> h, data |-> d]

\* Every PNG of at most MaxPixels pixels.
PngBlobs ==
  UNION { [fmt : {"png"}, width : {d[1]}, height : {d[2]},
           data : [1..(d[1] * d[2]) -> Colors]] :
          d \in { e \in (1..MaxPixels) \X (1..MaxPixels) : e[1] * e[2] <= MaxPixels } }
Blobs == PngBlobs \cup {Jpeg}

\* ---------------------------------------------------------- pngjs (library)
NoImage == [width |-> 0, height |-> 0, data |-> NoData]

\* PNG.sync.read: the decoded image, or an exception for bytes that are no PNG.
PngSyncRead(bytes) ==
  IF bytes.fmt = "png" /\ bytes.width > 0 /\ bytes.height > 0
  THEN [threw |-> FALSE,
        png |-> [width |-> bytes.width, height |-> bytes.height, data |-> bytes.data]]
  ELSE [threw |-> TRUE, png |-> NoImage]

\* PNG.sync.write: lossless encoding of an image.
PngSyncWrite(img) == PngBlob(img.width, img.height, img.data)

\* new PNG({width, height}): a zero-filled buffer of 4*width*height bytes.
NewPNG(width, height) ==
  [width |-> width, height |-> height,
   data |-> [i \in 1..(width * height) |-> Transparent]]

\* Index (1-based) of pixel (x, y) in a buffer of the given width.
Idx(width, x, y) == y * width + x + 1

\* PNG.bitblt(src, dst, srcX, srcY, width, height, deltaX, deltaY)
Bitblt(src, dst, srcX, srcY, width, height, deltaX, deltaY) ==
  IF \/ srcX > src.width \/ srcY > src.height
     \/ srcX + width > src.width \/ srcY + height > src.height
     \/ deltaX > dst.width \/ deltaY > dst.height
     \/ deltaX + width > dst.width \/ deltaY + height > dst.height
  THEN [threw |-> TRUE, dst |-> dst]
  ELSE [threw |-> FALSE,
        dst |-> [dst EXCEPT !.data =
                  [i \in 1..Len(dst.data) |->
                    LET x == (i - 1) % dst.width
                        y == (i - 1) \div dst.width
                    IN IF /\ x >= deltaX /\ x < deltaX + width
                          /\ y >= deltaY /\ y < deltaY + height
                       THEN src.data[Idx(src.width, x - deltaX + srcX, y - deltaY + srcY)]
                       ELSE dst.data[i]]]]

\* ----------------------------------------------------- pixelmatch (library)
Yellow == <<255, 255, 0, 255>>

\* colorDelta(img1, img2, k, m, false): the squared YIQ distance of two pixels
\* (magnitude). A fully transparent pixel is blended with the background
\* before it is compared; against opaque red the distance is at least 7876
\* at every position.
ColorDelta(p, q) == IF p = q THEN 0 ELSE 7876

\* colorDelta(img, img, k, m, true): the brightness difference between a
\* pixel p and its neighbour q. For one centre pixel every neighbour of the
\* other colour gives the same sign.
YDelta(p, q) == IF p = q THEN 0 ELSE IF p = Transparent THEN 0 - 28 ELSE 28

\* maxDelta = 35215 * threshold * threshold, the threshold given in percent.
MaxDelta(options) == (35215 * options.threshold * options.threshold) \div 10000

\* drawGrayPixel with alpha = 0.1: the luma of the pixel blended with white.
DrawGrayPixel(p) == IF p = Red THEN <<237, 237, 237, 255>> ELSE White

Neighbours(x1, y1, width, height) ==
  { n \in (Max(x1 - 1, 0)..Min(x1 + 1, width - 1)) \X
          (Max(y1 - 1, 0)..Min(y1 + 1, height - 1)) : n # <<x1, y1>> }

OnEdge(x1, y1, width, height) ==
  IF x1 = 0 \/ x1 = width - 1 \/ y1 = 0 \/ y1 = height - 1 THEN 1 ELSE 0

\* hasManySiblings: the pixel has more than two equal neighbours.
HasManySiblings(img, x1, y1, width, height) ==
  OnEdge(x1, y1, width, height)
    + Cardinality({ n \in Neighbours(x1, y1, width, height) :
                    img[Idx(width, n[1], n[2])] = img[Idx(width, x1, y1)] }) > 2

\* antialiased(img, x1, y1, width, height, a32, b32); img and a32 are two
\* views of the same buffer. The loop visits the neighbours x first, then y.
Antialiased(img, x1, y1, width, height, other) ==
  LET nb == Neighbours(x1, y1, width, height)
      d(n) == YDelta(img[Idx(width, x1, y1)], img[Idx(width, n[1], n[2])])
      key(n) == n[1] * height + n[2]
      zeroes == OnEdge(x1, y1, width, height) + Cardinality({ n \in nb : d(n) = 0 })
      darker == { n \in nb : d(n) < 0 }
      brighter == { n \in nb : d(n) > 0 }
      first(S, better(_, _)) ==
        CHOOSE n \in S : \A m \in S :
          better(d(n), d(m)) \/ (d(n) = d(m) /\ key(n) <= key(m))
      lt(a, b) == a < b
      gt(a, b) == a > b
  IN IF zeroes > 2 \/ darker = {} \/ brighter = {}
     THEN FALSE
     ELSE LET mn == first(darker, lt)
              mx == first(brighter, gt)
          IN \/ /\ HasManySiblings(img, mn[1], mn[2], width, height)
                /\ HasManySiblings(other, mn[1], mn[2], width, height)
             \/ /\ HasManySiblings(img, mx[1], mx[2], width, height)
                /\ HasManySiblings(other, mx[1], mx[2], width, height)

\* The class pixelmatch gives position i: "same", "aa" or "diff".
PixelClass(img1, img2, i, width, height, options) ==
  LET x == (i - 1) % width
      y == (i - 1) \div width
  IN IF ColorDelta(img1[i], img2[i]) > MaxDelta(options)
     THEN IF /\ ~options.includeAA
             /\ \/ Antialiased(img1, x, y, width, height, img2)
                \/ Antialiased(img2, x, y, width, height, img1)
          THEN "aa"
          ELSE "diff"
     ELSE "same"

\* pixelmatch(img1, img2, output, width, height, options): the output buffer
\* it draws and the number of differing pixels it returns, or an exception
\* when the buffers do not have the size width * height.
Pixelmatch(img1, img2, output, width, height, options) ==
  IF \/ Len(img1) # Len(img2) \/ Len(output) # Len(img1)
     \/ Len(img1) # width * height
  THEN [threw |-> TRUE, output |-> output, diff |-> 0]
  ELSE IF img1 = img2
  THEN [threw |-> FALSE,
        output |-> [i \in 1..Len(img1) |-> DrawGrayPixel(img1[i])],
        diff |-> 0]
  ELSE LET class == [i \in 1..Len(img1) |->
                       PixelClass(img1, img2, i, width, height, options)]
       IN [threw |-> FALSE,
           output |-> [i \in 1..Len(img1) |->
                        CASE class[i] = "diff" -> Red
                          [] class[i] = "aa" -> Yellow
                          [] OTHER -> DrawGrayPixel(img1[i])],
           diff |-> Cardinality({ i \in 1..Len(img1) : class[i] = "diff" })]

\* ------------------------------------------------------ DiffImageGenerator
\* A data URL data:image/<mime>;base64,<text>: the subtype it names and the
\* bytes its base64 text encodes.
DataUrl(mime, bytes) == [mime |-> mime, base64 |-> bytes]
NullUrl == [mime |-> "null", base64 |-> Null]

\* Faulty variant: the canvas takes the width of the current image alone.
CanvasWidthOfCurrent(currentPng, previousPng) == currentPng.width
CanvasWidth(currentPng, previousPng) == Max(currentPng.width, previousPng.width)
CanvasHeight(currentPng, previousPng) == Max(currentPng.height, previousPng.height)

\* Faulty variant: the diff canvas is allocated with width and height swapped.
DiffCanvasSwapped(width, height) == NewPNG(height, width)
CurrentCanvas(width, height) == NewPNG(width, height)
\* Faulty variant: the previous canvas is taken from a pool without being
\* cleared, so it still holds the diff image an earlier run drew on it.
PreviousCanvasRecycled(width, height) ==
  LET earlier == { q \in DOMAIN gen : /\ gen[q].stage = "return"
                                      /\ gen[q].diffImg.width = width
                                      /\ gen[q].diffImg.height = height }
  IN IF earlier = {} THEN NewPNG(width, height)
     ELSE gen[CHOOSE q \in earlier : \A o \in earlier : q <= o].diffImg
PreviousCanvas(width, height) == NewPNG(width, height)
DiffCanvas(width, height) == NewPNG(width, height)

\* Faulty variant: the previous image is anchored at the right edge of its canvas.
BlitPreviousRightAligned(previousPng, previousImg) ==
  Bitblt(previousPng, previousImg, 0, 0, previousPng.width, previousPng.height,
         previousImg.width - previousPng.width, 0)
\* Faulty variant: the previous image is never copied onto its canvas.
BlitPreviousSkipped(previousPng, previousImg) == [threw |-> FALSE, dst |-> previousImg]
BlitCurrent(currentPng, currentImg) ==
  Bitblt(currentPng, currentImg, 0, 0, currentPng.width, currentPng.height, 0, 0)
BlitPrevious(previousPng, previousImg) ==
  Bitblt(previousPng, previousImg, 0, 0, previousPng.width, previousPng.height, 0, 0)

\* Faulty variant: the threshold is 1.0, under which no two colours differ.
DefaultOptionsLenient == [threshold |-> 100, includeAA |-> FALSE]
DefaultOptions == [threshold |-> 10, includeAA |-> FALSE]
RunPixelmatch(currentImg, previousImg, diffImg, width, height) ==
  Pixelmatch(currentImg.data, previousImg.data, diffImg.data, width, height,
             DefaultOptions)

\* The locals of one run of generate. stage is the last statement reached:
\* "read" (a PNG.sync.read threw), "bitblt" (a bitblt threw), "pixelmatch"
\* (pixelmatch threw) or "return" (the data URL was returned).
GenRecord(stage, cp, pp, ci, pi, di, n, value) ==
  [settled |-> "fulfilled", stage |-> stage, value |-> value,
   logged |-> stage # "return",
   currentPng |-> cp, previousPng |-> pp,
   currentImg |-> ci, previousImg |-> pi, diffImg |-> di, numDiffPixels |-> n]

NoGen == [GenRecord("none", NoImage, NoImage, NoImage, NoImage, NoImage, 0, NullUrl)
            EXCEPT !.settled = "none", !.logged = FALSE]

\* Faulty variant: generate without its try/catch, so that a failed PNG.sync.read
\* rejects the promise.
GenerateUncaught(currentData, previousData) ==
  LET c == PngSyncRead(currentData)
      p == PngSyncRead(previousData)
  IN IF c.threw \/ p.threw
     THEN [GenRecord("read", c.png, p.png, NoImage, NoImage, NoImage, 0, NullUrl)
             EXCEPT !.settled = "rejected", !.logged = FALSE]
     ELSE LET width == CanvasWidth(c.png, p.png)
              height == CanvasHeight(c.png, p.png)
              b1 == BlitCurrent(c.png, CurrentCanvas(width, height))
              b2 == BlitPrevious(p.png, PreviousCanvas(width, height))
              d0 == DiffCanvas(width, height)
              m == RunPixelmatch(b1.dst, b2.dst, d0, width, height)
              diffImg == [d0 EXCEPT !.data = m.output]
          IN GenRecord("return", c.png, p.png, b1.dst, b2.dst, diffImg, m.diff,
                       DataUrl("png", PngSyncWrite(diffImg)))

\* DiffImageGenerator.generate(currentData, previousData)
Generate(currentData, previousData) ==
  LET c == PngSyncRead(currentData)
      p == PngSyncRead(previousData)
  IN IF c.threw \/ p.threw
     THEN GenRecord("read", c.png, p.png, NoImage, NoImage, NoImage, 0, NullUrl)
     ELSE
     LET width == CanvasWidth(c.png, p.png)
         height == CanvasHeight(c.png, p.png)
         b1 == BlitCurrent(c.png, CurrentCanvas(width, height))
         b2 == BlitPrevious(p.png, PreviousCanvas(width, height))
         d0 == DiffCanvas(width, height)
     IN IF b1.threw \/ b2.threw
        THEN GenRecord("bitblt", c.png, p.png, b1.dst, b2.dst, d0, 0, NullUrl)
        ELSE
        LET m == RunPixelmatch(b1.dst, b2.dst, d0, width, height)
            diffImg == [d0 EXCEPT !.data = m.output]
        IN IF m.threw
           THEN GenRecord("pixelmatch", c.png, p.png, b1.dst, b2.dst, d0, 0, NullUrl)
           ELSE GenRecord("return", c.png, p.png, b1.dst, b2.dst, diffImg, m.diff,
                          DataUrl("png", PngSyncWrite(diffImg)))

\* ------------------------------------------------------------ environment
\* File locations: the directory, the base name (its characters) and the
\* extension.
Uri(dir, base, ext) == [dir |-> dir, base |-> base, ext |-> ext]
Undefined == Uri("undefined", << >>, "")
WsPng == Uri("/ws", <<"l", "o", "g", "o">>, "png")
WsTxt == Uri("/ws", <<"n", "o", "t", "e", "s">>, "txt")
OutPng == Uri("/tmp", <<"s", "h", "o", "t">>, "png")

\* The backquote character (a TLA+ string cannot hold it).
Backquote == "backquote"
\* File names of one to MaxNameLen characters: a letter, the space and the
\* characters the shell gives a meaning to.
NameAlphabet == {"a", " ", "\"", "$", Backquote, "\\"}
FileNames == UNION { [1..n -> NameAlphabet] : n \in 1..MaxNameLen }
Uris == {WsPng, WsTxt, OutPng}

\* Contents found in the working tree and in the history.
Png1 == PngBlob(1, 1, <<Red>>)
Png2 == PngBlob(2, 1, <<Transparent, Red>>)
SampleBlobs == {Png1, Png2, Jpeg}

MaxBuffer == 10 * 1024 * 1024

\* What running `git show <revision>:"<path>"` does: it prints the content
\* (size bytes of it), or it exits with an error.
GitOk(content, size) == [kind |-> "ok", content |-> content, size |-> size]
GitFailure(kind) == [kind |-> kind, content |-> Null, size |-> 0]
GitFailures == {"absent", "ambiguous", "notRepository", "outsideRepository"}
GitOutcomes ==
  { GitOk(b, 4096) : b \in SampleBlobs }
    \cup { GitOk(Png1, MaxBuffer), GitOk(Png1, MaxBuffer + 1) }
    \cup { GitFailure(k) : k \in GitFailures }

\* What fs.readFileSync does: the content, or an exception (ENOENT).
ReadOk(content) == [kind |-> "ok", content |-> content]
ReadEnoent == [kind |-> "enoent", content |-> Null]
ReadOutcomes == { ReadOk(b) : b \in SampleBlobs } \cup {ReadEnoent}

\* --------------------------------------------------------- host interface
ErrorMessage(text) == [level |-> "error", text |-> text]
WarningMessage(text) == [level |-> "warning", text |-> text]
ConsoleLog(text) == [level |-> "log", text |-> text]
ConsoleError(text) == [level |-> "error", text |-> text]

\* Faulty variant: every file passes for an image.
IsImageFileAlways(uri) == TRUE
\* isImageFile(uri): /\.(png|jpg|jpeg|gif|bmp|webp)$/i
IsImageFile(uri) == uri.ext \in {"png", "jpg", "jpeg", "gif", "bmp", "webp"}

\* getWorkspaceRoot(uri): the root, or null after an error message.
NoRoot == "null"
GetWorkspaceRoot(uri, folders) ==
  IF folders = {}
  THEN [root |-> NoRoot,
        shown |-> <<ErrorMessage("No workspace found. This extension requires a Git repository.")>>]
  ELSE IF uri.dir \notin folders
  THEN [root |-> NoRoot,
        shown |-> <<ErrorMessage("File does not belong to any open workspace")>>]
  ELSE [root |-> uri.dir, shown |-> << >>]

\* ------------------------------------------------------------- GitService
\* path.relative(workspaceRoot, filePath).replace(/\\/g, '/')
\* The characters of the strings the command is put together from.
Characters(s) ==
  CASE s = "git show " -> <<"g", "i", "t", " ", "s", "h", "o", "w", " ">>
    [] s = "HEAD" -> <<"H", "E", "A", "D">>
    [] s = "HEAD~1" -> <<"H", "E", "A", "D", "~", "1">>
    [] s = "png" -> <<"p", "n", "g">>
    [] s = "txt" -> <<"t", "x", "t">>
    [] s = "/ws" -> <<"/", "w", "s">>
    [] s = "/tmp" -> <<"/", "t", "m", "p">>

\* The file name with its extension, as the file system has it.
Basename(filePath) == filePath.base \o <<".">> \o Characters(filePath.ext)

\* .replace(/\\/g, '/'): every backslash becomes a slash
ReplaceBackslashes(chars) ==
  [i \in 1..Len(chars) |-> IF chars[i] = "\\" THEN "/" ELSE chars[i]]

\* path.relative(workspaceRoot, filePath).replace(/\\/g, '/')
RelativePath(workspaceRoot, filePath) ==
  ReplaceBackslashes(
    IF filePath.dir = workspaceRoot
    THEN Basename(filePath)
    ELSE <<".", ".">> \o Characters(filePath.dir) \o <<"/">> \o Basename(filePath))

\* `git show ${revision}:"${relativePath}"`, run in workspaceRoot
GitCommand(options) ==
  [cwd |-> options.workspaceRoot,
   line |-> Characters("git show ") \o Characters(options.revision) \o <<":", "\"">>
              \o RelativePath(options.workspaceRoot, options.filePath) \o <<"\"">>]

\* ------------------------------------------------------- /bin/sh (library)
\* What the shell that execSync starts makes of a command line: whether it
\* accepts it, the words it passes on (the command and its arguments),
\* whether it expanded a parameter, and the commands it ran by command
\* substitution. Modelled: blanks, double quotes, the backslash, $name and
\* $$, and the backquotes.
ShNameChars ==
  {"a", "d", "e", "g", "h", "i", "l", "m", "n", "o", "p", "s", "t", "w", "x",
   "A", "D", "E", "H", "_", "1"}
ShRejected == [ok |-> FALSE, words |-> << >>, expanded |-> FALSE, ran |-> << >>]
ShStart == [quoted |-> FALSE, word |-> << >>, started |-> FALSE, words |-> << >>,
            expanded |-> FALSE, ran |-> << >>]

RECURSIVE ShScan(_, _, _)
ShScan(line, i, st) ==
  IF i > Len(line)
  THEN IF st.quoted
       THEN ShRejected
       ELSE [ok |-> TRUE,
             words |-> IF st.started THEN Append(st.words, st.word) ELSE st.words,
             expanded |-> st.expanded, ran |-> st.ran]
  ELSE
  LET c == line[i]
      more == i < Len(line)
      next == IF more THEN line[i + 1] ELSE ""
      closing == { k \in (i + 1)..Len(line) : line[k] = Backquote /\ line[k - 1] # "\\" }
      nameEnd == CHOOSE k \in (i + 1)..(Len(line) + 1) :
                   /\ \A j \in (i + 1)..(k - 1) : line[j] \in ShNameChars
                   /\ k <= Len(line) => line[k] \notin ShNameChars
  IN CASE c = "\\" /\ more /\ (~st.quoted \/ next \in {"$", Backquote, "\"", "\\"}) ->
            ShScan(line, i + 2, [st EXCEPT !.word = Append(@, next), !.started = TRUE])
       [] c = "\"" ->
            ShScan(line, i + 1, [st EXCEPT !.quoted = ~@, !.started = TRUE])
       [] c = " " /\ ~st.quoted ->
            ShScan(line, i + 1,
                   [st EXCEPT !.words = IF st.started THEN Append(@, st.word) ELSE @,
                              !.word = << >>, !.started = FALSE])
       [] c = "$" /\ next = "$" ->
            ShScan(line, i + 2, [st EXCEPT !.expanded = TRUE])
       [] c = "$" /\ next \in ShNameChars ->
            ShScan(line, nameEnd, [st EXCEPT !.expanded = TRUE])
       [] c = Backquote ->
            IF closing = {}
            THEN ShRejected
            ELSE LET k == CHOOSE k \in closing : \A j \in closing : k <= j
                 IN ShScan(line, k + 1,
                           [st EXCEPT !.expanded = TRUE,
                                      !.ran = Append(@, SubSeq(line, i + 1, k - 1))])
       [] OTHER ->
            ShScan(line, i + 1, [st EXCEPT !.word = Append(@, c), !.started = TRUE])

ShParse(line) == ShScan(line, 1, ShStart)

\* execSync(command, {maxBuffer}): throws when the command fails or prints
\* more than maxBuffer bytes.
ExecSync(outcome, maxBuffer) ==
  IF outcome.kind = "ok" /\ outcome.size <= maxBuffer
  THEN [threw |-> FALSE, content |-> outcome.content]
  ELSE [threw |-> TRUE, content |-> Null]

\* Faulty variant: execSync is called with a limit ten times as large.
GetVersionWideBuffer(options, outcome) ==
  LET run == ExecSync(outcome, 10 * MaxBuffer)
  IN [settled |-> "fulfilled",
      value |-> IF run.threw THEN Null ELSE run.content,
      command |-> GitCommand(options),
      console |-> <<ConsoleLog("Executing")>>
                    \o (IF run.threw THEN <<ConsoleError("Cannot get version")>> ELSE << >>)]

\* GitService.getVersion(options), outcome being what the git command does.
GetVersion(options, outcome) ==
  LET run == ExecSync(outcome, MaxBuffer)
  IN [settled |-> "fulfilled",
      value |-> IF run.threw THEN Null ELSE run.content,
      command |-> GitCommand(options),
      console |-> <<ConsoleLog("Executing")>>
                    \o (IF run.threw THEN <<ConsoleError("Cannot get version")>> ELSE << >>)]

\* A command line the shell rejects prints nothing: it can only fail.
CanEndWith(command, outcome) == outcome.kind = "ok" => ShParse(command.line).ok

\* ------------------------------------------------------------ FileService
\* FileService.readFile(filePath): an async function around readFileSync.
ReadFile(outcome) ==
  IF outcome.kind = "ok"
  THEN [settled |-> "fulfilled", value |-> outcome.content]
  ELSE [settled |-> "rejected", value |-> Null]

\* FileService.getImageBase64(data, filePath)
GetImageBase64(data, filePath) == DataUrl(filePath.ext, data)

\* ------------------------------------------------- WebviewContentGenerator
\* getDiffViewerContent: what the page embeds, and whether it has the
\* Difference button and container.
GetDiffViewerContent(o) ==
  [currentImage |-> o.currentImage, previousImage |-> o.previousImage,
   diffImage |-> o.diffImage,
   currentLabel |-> o.currentLabel, previousLabel |-> o.previousLabel,
   hasDiffMode |-> o.diffImage # NullUrl]

\* ------------------------------------------- the script of the diff viewer
\* The page of a panel once loaded: the elements it has, the containers with
\* the class hidden, the buttons with the class active, the variables of the
\* script, the left of the slider and of the clip of the current image (in
\* percent), the cursor, and whether a handler has thrown.
Modes == {"sideBySide", "slider", "diff"}
Buttons == {"sideBySideBtn", "sliderBtn", "diffBtn"}
Containers == {"sideBySideMode", "sliderMode", "diffMode"}
ButtonOf(mode) ==
  CASE mode = "sideBySide" -> "sideBySideBtn"
    [] mode = "slider" -> "sliderBtn"
    [] mode = "diff" -> "diffBtn"
    [] OTHER -> "none"
ContainerOf(mode) ==
  CASE mode = "sideBySide" -> "sideBySideMode"
    [] mode = "slider" -> "sliderMode"
    [] mode = "diff" -> "diffMode"
    [] OTHER -> "none"

\* The document as getDiffViewerContent writes it and the script as it
\* stands after its top-level statements.
LoadPage(html) ==
  [loaded |-> TRUE,
   elements |-> {"sideBySideBtn", "sliderBtn", "sideBySideMode", "sliderMode", "slider"}
                  \cup (IF html.hasDiffMode THEN {"diffBtn", "diffMode"} ELSE {}),
   hidden |-> {"sliderMode"} \cup (IF html.hasDiffMode THEN {"diffMode"} ELSE {}),
   active |-> {"sideBySideBtn"},
   currentMode |-> "sideBySide",
   isDragging |-> FALSE,
   sliderLeft |-> 50,
   clipLeft |-> 50,
   cursor |-> "",
   threw |-> FALSE]
NoView == [LoadPage([hasDiffMode |-> FALSE]) EXCEPT !.loaded = FALSE]

\* setMode(mode)
SetMode(v, mode) ==
  LET active == IF ButtonOf(mode) \in v.elements THEN {ButtonOf(mode)} ELSE {}
      hidden == v.hidden \cup (Containers \cap v.elements)
  IN IF mode \notin Modes
     THEN [v EXCEPT !.active = {}, !.hidden = hidden, !.currentMode = mode]
     ELSE IF ContainerOf(mode) \notin v.elements
     THEN \* getElementById yields null: classList of null
          [v EXCEPT !.active = active, !.hidden = hidden, !.currentMode = mode,
                    !.threw = TRUE]
     ELSE [v EXCEPT !.active = active, !.hidden = hidden \ {ContainerOf(mode)},
                    !.currentMode = mode]

\* The rectangle of .image-wrapper while it is shown, and pointer positions
\* left of it, on it and right of it.
RectLeft == 10
RectWidth == 200
ClientXs == {0 - 30, 10, 60, 110, 160, 210, 300}

\* updateSliderPosition(clientX)
UpdateSliderPosition(v, clientX) ==
  LET x == clientX - RectLeft
      percentage == Max(0, Min(100, (x * 100) \div RectWidth))
  IN [v EXCEPT !.sliderLeft = percentage, !.clipLeft = percentage]

\* Faulty variant: the button Swipe asks for the mode 'swipe'.
ButtonModeSwipe(button) ==
  CASE button = "sideBySideBtn" -> "sideBySide"
    [] button = "sliderBtn" -> "swipe"
    [] button = "diffBtn" -> "diff"
\* The onclick attributes of the toolbar buttons.
ButtonMode(button) ==
  CASE button = "sideBySideBtn" -> "sideBySide"
    [] button = "sliderBtn" -> "slider"
    [] button = "diffBtn" -> "diff"

\* Faulty variant: the key 3 switches to the difference without a look at
\* the document.
OnKeyDownUnguarded(v, key) ==
  CASE key = "1" -> SetMode(v, "sideBySide")
    [] key = "2" -> SetMode(v, "slider")
    [] key = "3" -> SetMode(v, "diff")
    [] OTHER -> v
\* The keydown listener of the document.
OnKeyDown(v, key) ==
  CASE key = "1" -> SetMode(v, "sideBySide")
    [] key = "2" -> SetMode(v, "slider")
    [] key = "3" /\ "diffMode" \in v.elements -> SetMode(v, "diff")
    [] OTHER -> v

\* The mousedown listener of the slider.
OnSliderMouseDown(v) == [v EXCEPT !.isDragging = TRUE, !.cursor = "ew-resize"]

\* The mousedown listener of .image-wrapper.
OnWrapperMouseDown(v, clientX) ==
  IF v.currentMode = "slider"
  THEN [UpdateSliderPosition([v EXCEPT !.isDragging = TRUE], clientX)
          EXCEPT !.cursor = "ew-resize"]
  ELSE v

\* Faulty variant: the listener moves the slider in every mode.
OnMouseMoveAnyMode(v, clientX) ==
  IF ~v.isDragging THEN v ELSE UpdateSliderPosition(v, clientX)
\* The mousemove listener of the document.
OnMouseMove(v, clientX) ==
  IF ~v.isDragging \/ v.currentMode # "slider"
  THEN v
  ELSE UpdateSliderPosition(v, clientX)

\* The mouseup listener of the document.
OnMouseUp(v) == [v EXCEPT !.isDragging = FALSE, !.cursor = "default"]

\* ------------------------------------------------------------ invocations
Reqs == 1..MaxRequests

NoCall == [cmd |-> "none", uri |-> Undefined, left |-> Undefined, right |-> Undefined,
           title |-> ""]
NoPending == [currentImage |-> NullUrl, previousImage |-> NullUrl,
              currentLabel |-> "", previousLabel |-> ""]
NoHtml == [GetDiffViewerContent([currentImage |-> NullUrl, previousImage |-> NullUrl,
                                 diffImage |-> NullUrl, currentLabel |-> "",
                                 previousLabel |-> ""]) EXCEPT !.hasDiffMode = FALSE]
NoPanel == [created |-> FALSE, title |-> << >>, htmlSets |-> 0, html |-> NoHtml]

Init ==
  /\ workspaceFolders \in {{}, {"/ws"}}
  /\ nreq = 0
  /\ pc = [r \in Reqs |-> "idle"]
  /\ call = [r \in Reqs |-> NoCall]
  /\ previousImageData = [r \in Reqs |-> Null]
  /\ fileData = [r \in Reqs |-> << >>]
  /\ gen = [r \in Reqs |-> NoGen]
  /\ pending = [r \in Reqs |-> NoPending]
  /\ panel = [r \in Reqs |-> NoPanel]
  /\ notifications = [r \in Reqs |-> << >>]
  /\ consoleLog = [r \in Reqs |-> << >>]
  /\ fsReads = [r \in Reqs |-> << >>]
  /\ gitRuns = [r \in Reqs |-> << >>]
  /\ view = [r \in Reqs |-> NoView]

\* ---------------------------------------------------------- handler steps
\* The handler of invocation r returns after showing the messages.
Return(r, shown) ==
  /\ pc' = [pc EXCEPT ![r] = "done"]
  /\ notifications' = [notifications EXCEPT ![r] = @ \o shown]

\* A new invocation r of a command: the handler runs up to its first await.
Invoke(r, c) ==
  /\ nreq < MaxRequests
  /\ r = nreq + 1
  /\ nreq' = r
  /\ call' = [call EXCEPT ![r] = c]

\* const previousImageData = await GitService.getVersion({...}); a rejected
\* promise would make the await throw into the handler's catch.
AwaitGetVersion(r, uri, revision, workspaceRoot, caught) ==
  \E outcome \in GitOutcomes :
    LET options == [filePath |-> uri, revision |-> revision,
                    workspaceRoot |-> workspaceRoot]
        v == GetVersion(options, outcome)
    IN /\ CanEndWith(GitCommand(options), outcome)
       /\ gitRuns' = [gitRuns EXCEPT ![r] =
             Append(@, [command |-> v.command, outcome |-> outcome,
                        settled |-> v.settled, value |-> v.value])]
       /\ consoleLog' = [consoleLog EXCEPT ![r] = @ \o v.console]
       /\ previousImageData' = [previousImageData EXCEPT ![r] = v.value]
       /\ IF v.settled = "rejected"
          THEN Return(r, caught)
          ELSE /\ pc' = [pc EXCEPT ![r] = "awaitVersion"]
               /\ UNCHANGED notifications

\* const currentImageData = await FileService.readFile(currentImagePath)
AwaitReadFile(r, path) ==
  \E outcome \in ReadOutcomes :
    /\ fsReads' = [fsReads EXCEPT ![r] = Append(@, path)]
    /\ fileData' = [fileData EXCEPT ![r] = <<ReadFile(outcome)>>]
    /\ pc' = [pc EXCEPT ![r] = "awaitRead"]
    /\ UNCHANGED notifications

\* DiffViewerService.createWebviewPanel(title, ...)
CreateWebviewPanel(title) == [NoPanel EXCEPT !.created = TRUE, !.title = title]

\* DiffViewerService.openDiffViewer(context, data), up to its return: the
\* panel, the two data URLs, the call of generate and the callback it leaves.
OpenDiffViewer(r, data) ==
  /\ panel' = [panel EXCEPT ![r] =
                 CreateWebviewPanel(<<"Image Diff - ", data.currentPath.base, ".",
                                      data.currentPath.ext>>)]
  /\ IF data.currentData = Null \/ data.previousData = Null
     THEN \* data.toString of null: a TypeError, caught by the handler
          /\ Return(r, <<ErrorMessage("Error: TypeError")>>)
          /\ UNCHANGED <<gen, pending, consoleLog>>
     ELSE LET g == Generate(data.currentData, data.previousData)
          IN /\ gen' = [gen EXCEPT ![r] = g]
             /\ consoleLog' = [consoleLog EXCEPT ![r] =
                   @ \o (IF g.logged
                         THEN <<ConsoleError("Failed to generate diff image")>>
                         ELSE << >>)]
             /\ pending' = [pending EXCEPT ![r] =
                   [currentImage |-> GetImageBase64(data.currentData, data.currentPath),
                    previousImage |-> GetImageBase64(data.previousData, data.currentPath),
                    currentLabel |-> data.currentLabel,
                    previousLabel |-> data.previousLabel]]
             /\ pc' = [pc EXCEPT ![r] = "awaitDiff"]
             /\ UNCHANGED notifications

\* DiffViewerService.openTwoFilesDiffViewer(context, options), up to its return.
OpenTwoFilesDiffViewer(r, o) ==
  /\ panel' = [panel EXCEPT ![r] =
                 CreateWebviewPanel(IF o.title # "" THEN <<o.title>>
                                    ELSE <<"Image Diff - ", o.leftPath.base, ".",
                                           o.leftPath.ext, " <-> ", o.rightPath.base,
                                           ".", o.rightPath.ext>>)]
  /\ LET g == Generate(o.rightData, o.leftData)
     IN /\ gen' = [gen EXCEPT ![r] = g]
        /\ consoleLog' = [consoleLog EXCEPT ![r] =
              @ \o (IF g.logged
                    THEN <<ConsoleError("Failed to generate diff image")>>
                    ELSE << >>)]
        /\ pending' = [pending EXCEPT ![r] =
              [currentImage |-> GetImageBase64(o.rightData, o.rightPath),
               previousImage |-> GetImageBase64(o.leftData, o.leftPath),
               currentLabel |-> "Current",
               previousLabel |-> "Previous"]]
        /\ pc' = [pc EXCEPT ![r] = "awaitDiff"]
        /\ UNCHANGED notifications

\* Faulty variant: the data URLs and labels are kept in fields that all
\* viewers share; a callback finds there what the highest-numbered invocation
\* with an open viewer has stored.
CallbackScopeShared(r) ==
  LET opened == { q \in DOMAIN pending : pc[q] \in {"awaitDiff", "done"} /\ panel[q].created }
  IN pending[CHOOSE q \in opened : \A o \in opened : o <= q]
\* The constants the arrow function given to .then closes over: the data
\* URLs and the labels of its own call of openDiffViewer.
CallbackScope(r) == pending[r]

\* Faulty variant: the callback sets the page only when there is a diff image.
SetHtmlIfDiff(r) ==
  /\ pc[r] = "awaitDiff"
  /\ gen[r].settled = "fulfilled"
  /\ gen[r].value # NullUrl
  /\ panel' = [panel EXCEPT ![r].htmlSets = @ + 1,
                            ![r].html = GetDiffViewerContent(
                               [currentImage |-> CallbackScope(r).currentImage,
                                previousImage |-> CallbackScope(r).previousImage,
                                diffImage |-> gen[r].value,
                                currentLabel |-> CallbackScope(r).currentLabel,
                                previousLabel |-> CallbackScope(r).previousLabel])]
  /\ view' = [view EXCEPT ![r] = LoadPage(panel'[r].html)]
  /\ pc' = [pc EXCEPT ![r] = "done"]
  /\ UNCHANGED <<workspaceFolders, nreq, call, previousImageData, fileData, gen,
                 pending, notifications, consoleLog, fsReads, gitRuns>>

\* The callback given to generate(...).then: it sets the page of the panel.
SetHtml(r) ==
  /\ pc[r] = "awaitDiff"
  /\ gen[r].settled = "fulfilled"
  /\ panel' = [panel EXCEPT ![r].htmlSets = @ + 1,
                            ![r].html = GetDiffViewerContent(
                               [currentImage |-> CallbackScope(r).currentImage,
                                previousImage |-> CallbackScope(r).previousImage,
                                diffImage |-> gen[r].value,
                                currentLabel |-> CallbackScope(r).currentLabel,
                                previousLabel |-> CallbackScope(r).previousLabel])]
  /\ view' = [view EXCEPT ![r] = LoadPage(panel'[r].html)]
  /\ pc' = [pc EXCEPT ![r] = "done"]
  /\ UNCHANGED <<workspaceFolders, nreq, call, previousImageData, fileData, gen,
                 pending, notifications, consoleLog, fsReads, gitRuns>>

\* ------------------------------------------------- events in a diff viewer
\* Faulty variant: an event makes the extension set the page of every panel
\* anew.
ViewerFrameResetsPage ==
  /\ panel' = [r \in DOMAIN panel |-> [panel[r] EXCEPT !.htmlSets = @ + 1]]
  /\ UNCHANGED <<workspaceFolders, nreq, pc, call, previousImageData, fileData, gen,
                 pending, notifications, consoleLog, fsReads, gitRuns>>
\* What an event in a page leaves alone: the script posts no message to the
\* extension and the extension listens to none.
ViewerFrame ==
  UNCHANGED <<workspaceFolders, nreq, pc, call, previousImageData, fileData, gen,
              pending, panel, notifications, consoleLog, fsReads, gitRuns>>

\* An element can be clicked when it is in the document and not inside a
\* hidden container.
Shown(v, container) == v.loaded /\ container \in v.elements /\ container \notin v.hidden

\* A click on a toolbar button.
ClickButton(r, button) ==
  /\ view[r].loaded /\ button \in view[r].elements
  /\ view' = [view EXCEPT ![r] = SetMode(@, ButtonMode(button))]
  /\ ViewerFrame

\* A key is pressed.
KeyDown(r, key) ==
  /\ view[r].loaded
  /\ view' = [view EXCEPT ![r] = OnKeyDown(@, key)]
  /\ ViewerFrame

\* The mouse button goes down on the slider: its own listener runs, then the
\* event bubbles to .image-wrapper.
SliderMouseDown(r, clientX) ==
  /\ Shown(view[r], "sliderMode")
  /\ view' = [view EXCEPT ![r] = OnWrapperMouseDown(OnSliderMouseDown(@), clientX)]
  /\ ViewerFrame

\* The mouse button goes down elsewhere on .image-wrapper.
WrapperMouseDown(r, clientX) ==
  /\ Shown(view[r], "sliderMode")
  /\ view' = [view EXCEPT ![r] = OnWrapperMouseDown(@, clientX)]
  /\ ViewerFrame

\* The mouse moves.
MouseMove(r, clientX) ==
  /\ view[r].loaded
  /\ view' = [view EXCEPT ![r] = OnMouseMove(@, clientX)]
  /\ ViewerFrame

\* The mouse button goes up.
MouseUp(r) ==
  /\ view[r].loaded
  /\ view' = [view EXCEPT ![r] = OnMouseUp(@)]
  /\ ViewerFrame

Keys == {"1", "2", "3", "4"}

\* ------------------------------------------- imageDiff.compareWithPrevious
\* Faulty variant: the test is for undefined, which getVersion never yields.
CompareMissingOnlyUndefined(data) == FALSE
\* Faulty variant: the warning is not shown.
CompareNoWarning == << >>
CompareMissingPrevious(data) == data = Null
CompareWarning ==
  <<WarningMessage("Cannot retrieve previous version (HEAD~1) of this image from Git")>>

\* handleCompareWithPrevious(uri), up to the await of getVersion.
HandleCompareWithPrevious(r, uri) ==
  /\ Invoke(r, [NoCall EXCEPT !.cmd = "compareWithPrevious", !.uri = uri])
  /\ IF uri = Undefined
     THEN /\ Return(r, <<ErrorMessage("Error: TypeError")>>)
          /\ UNCHANGED <<gitRuns, consoleLog, previousImageData>>
     ELSE LET ws == GetWorkspaceRoot(uri, workspaceFolders)
          IN IF ws.root = NoRoot
             THEN /\ Return(r, ws.shown)
                  /\ UNCHANGED <<gitRuns, consoleLog, previousImageData>>
             ELSE AwaitGetVersion(r, uri, "HEAD~1", ws.root,
                                  <<ErrorMessage("Error: exception")>>)
  /\ UNCHANGED <<workspaceFolders, fileData, gen, pending, panel, fsReads, view>>

\* handleCompareWithPrevious, from the resolved version to the await of readFile.
CompareAfterVersion(r) ==
  /\ pc[r] = "awaitVersion"
  /\ call[r].cmd = "compareWithPrevious"
  /\ IF CompareMissingPrevious(previousImageData[r])
     THEN /\ Return(r, CompareWarning)
          /\ UNCHANGED <<fsReads, fileData>>
     ELSE AwaitReadFile(r, call[r].uri)
  /\ UNCHANGED <<workspaceFolders, nreq, call, previousImageData, gen, pending,
                 panel, consoleLog, gitRuns, view>>

\* handleCompareWithPrevious, from the file's content to its return.
CompareAfterRead(r) ==
  /\ pc[r] = "awaitRead"
  /\ call[r].cmd = "compareWithPrevious"
  /\ IF fileData[r][1].settled = "rejected"
     THEN /\ Return(r, <<ErrorMessage("Error: ENOENT")>>)
          /\ UNCHANGED <<gen, pending, panel, consoleLog>>
     ELSE OpenDiffViewer(r, [currentPath |-> call[r].uri,
                             currentData |-> fileData[r][1].value,
                             previousData |-> previousImageData[r],
                             currentLabel |-> "Current",
                             previousLabel |-> "Previous Commit (HEAD~1)"])
  /\ UNCHANGED <<workspaceFolders, nreq, call, previousImageData, fileData,
                 fsReads, gitRuns, view>>

\* ------------------------------------------------ imageDiff.openScmChanges
\* The argument of the command: no resource state at all, or one with its
\* resourceUri (possibly undefined).
NoResourceState == Uri("undefined", <<"resourceState">>, "")
ScmMissingHead(data) == data = Null
ScmWarning ==
  <<WarningMessage("Cannot retrieve HEAD version of this image. This might be a new file.")>>

\* handleOpenScmChanges(resourceState), up to the await of getVersion.
HandleOpenScmChanges(r, uri) ==
  /\ Invoke(r, [NoCall EXCEPT !.cmd = "openScmChanges", !.uri = uri])
  /\ IF uri = NoResourceState
     THEN /\ Return(r, <<ErrorMessage("Error opening SCM changes: TypeError")>>)
          /\ UNCHANGED <<gitRuns, consoleLog, previousImageData>>
     ELSE IF uri = Undefined \/ ~IsImageFile(uri)
     THEN /\ Return(r, <<ErrorMessage("Please select an image file to compare with the previous version.")>>)
          /\ UNCHANGED <<gitRuns, consoleLog, previousImageData>>
     ELSE LET ws == GetWorkspaceRoot(uri, workspaceFolders)
          IN IF ws.root = NoRoot
             THEN /\ Return(r, ws.shown)
                  /\ UNCHANGED <<gitRuns, consoleLog, previousImageData>>
             ELSE AwaitGetVersion(r, uri, "HEAD", ws.root,
                                  <<ErrorMessage("Error opening SCM changes: exception")>>)
  /\ UNCHANGED <<workspaceFolders, fileData, gen, pending, panel, fsReads, view>>

\* handleOpenScmChanges, from the resolved version to the await of readFile.
ScmAfterVersion(r) ==
  /\ pc[r] = "awaitVersion"
  /\ call[r].cmd = "openScmChanges"
  /\ IF ScmMissingHead(previousImageData[r])
     THEN /\ Return(r, ScmWarning)
          /\ UNCHANGED <<fsReads, fileData>>
     ELSE AwaitReadFile(r, call[r].uri)
  /\ UNCHANGED <<workspaceFolders, nreq, call, previousImageData, gen, pending,
                 panel, consoleLog, gitRuns, view>>

\* handleOpenScmChanges, from the file's content to its return.
ScmAfterRead(r) ==
  /\ pc[r] = "awaitRead"
  /\ call[r].cmd = "openScmChanges"
  /\ IF fileData[r][1].settled = "rejected"
     THEN /\ Return(r, <<ErrorMessage("Error opening SCM changes: ENOENT")>>)
          /\ UNCHANGED <<gen, pending, panel, consoleLog>>
     ELSE OpenDiffViewer(r, [currentPath |-> call[r].uri,
                             currentData |-> fileData[r][1].value,
                             previousData |-> previousImageData[r],
                             currentLabel |-> "Working Tree",
                             previousLabel |-> "HEAD"])
  /\ UNCHANGED <<workspaceFolders, nreq, call, previousImageData, fileData,
                 fsReads, gitRuns, view>>

\* ------------------------------------------------ imageDiff.openAsDiffTool
\* handleOpenAsDiffTool(left, right, title), up to the await of Promise.all.
HandleOpenAsDiffTool(r, left, right, title) ==
  /\ Invoke(r, [NoCall EXCEPT !.cmd = "openAsDiffTool", !.left = left,
                              !.right = right, !.title = title])
  /\ IF left = Undefined \/ right = Undefined
     THEN /\ Return(r, <<ErrorMessage("Two image files are required for comparison")>>)
          /\ UNCHANGED <<fsReads, fileData>>
     ELSE \E o1 \in ReadOutcomes, o2 \in ReadOutcomes :
            /\ fsReads' = [fsReads EXCEPT ![r] = @ \o <<left, right>>]
            /\ fileData' = [fileData EXCEPT ![r] = <<ReadFile(o1), ReadFile(o2)>>]
            /\ pc' = [pc EXCEPT ![r] = "awaitReadBoth"]
            /\ UNCHANGED notifications
  /\ UNCHANGED <<workspaceFolders, previousImageData, gen, pending, panel,
                 consoleLog, gitRuns, view>>

\* handleOpenAsDiffTool, from the two contents to its return.
DiffToolAfterRead(r) ==
  /\ pc[r] = "awaitReadBoth"
  /\ IF fileData[r][1].settled = "rejected" \/ fileData[r][2].settled = "rejected"
     THEN /\ Return(r, <<ErrorMessage("Error: ENOENT")>>)
          /\ UNCHANGED <<gen, pending, panel, consoleLog>>
     ELSE OpenTwoFilesDiffViewer(r, [leftPath |-> call[r].left,
                                     rightPath |-> call[r].right,
                                     leftData |-> fileData[r][1].value,
                                     rightData |-> fileData[r][2].value,
                                     title |-> call[r].title])
  /\ UNCHANGED <<workspaceFolders, nreq, call, previousImageData, fileData,
                 fsReads, gitRuns, view>>

\* ---------------------------------------------------------- specification
Titles == {"", "Compare"}

Next ==
  \E r \in Reqs :
    \/ \E uri \in Uris \cup {Undefined} : HandleCompareWithPrevious(r, uri)
    \/ CompareAfterVersion(r)
    \/ CompareAfterRead(r)
    \/ \E uri \in Uris \cup {Undefined, NoResourceState} : HandleOpenScmChanges(r, uri)
    \/ ScmAfterVersion(r)
    \/ ScmAfterRead(r)
    \/ \E left \in {Undefined, WsPng, OutPng}, right \in {Undefined, WsPng, OutPng},
          title \in Titles : HandleOpenAsDiffTool(r, left, right, title)
    \/ DiffToolAfterRead(r)
    \/ SetHtml(r)

Spec == Init /\ [][Next]_vars

\* The promise of generate is settled when .then is called, and the event
\* loop runs the callback of a settled promise: a callback that can run does.
SpecLive == Init /\ [][Next]_vars /\ \A r \in Reqs : WF_vars(SetHtml(r))

\* The generator on every pair of contents: handleCompareWithPrevious has
\* resolved the previous version and read the current file, whatever they hold.
InitGenerate ==
  /\ workspaceFolders = {"/ws"}
  /\ nreq = 1
  /\ pc = [r \in Reqs |-> IF r = 1 THEN "awaitRead" ELSE "idle"]
  /\ call = [r \in Reqs |-> IF r = 1
                            THEN [NoCall EXCEPT !.cmd = "compareWithPrevious", !.uri = WsPng]
                            ELSE NoCall]
  /\ previousImageData \in [Reqs -> Blobs \cup {Null}]
  /\ \A r \in Reqs : previousImageData[r] = Null <=> r # 1
  /\ fileData \in [Reqs -> {<<ReadFile(ReadOk(b))>> : b \in Blobs} \cup {<< >>}]
  /\ \A r \in Reqs : fileData[r] = << >> <=> r # 1
  /\ gen = [r \in Reqs |-> NoGen]
  /\ pending = [r \in Reqs |-> NoPending]
  /\ panel = [r \in Reqs |-> NoPanel]
  /\ notifications = [r \in Reqs |-> << >>]
  /\ consoleLog = [r \in Reqs |-> <<ConsoleLog("Executing")>>]
  /\ fsReads = [r \in Reqs |-> IF r = 1 THEN <<WsPng>> ELSE << >>]
  /\ gitRuns = [r \in Reqs |-> << >>]
  /\ view = [r \in Reqs |-> NoView]

NextGenerate == \E r \in Reqs : CompareAfterRead(r) \/ SetHtml(r)

SpecGenerate == InitGenerate /\ [][NextGenerate]_vars

\* The retrieval command for every file name: the two commands that call
\* getVersion, invoked on an image of the workspace folder.
NextCommand ==
  \E r \in Reqs : \E name \in FileNames :
    \/ HandleCompareWithPrevious(r, Uri("/ws", name, "png"))
    \/ HandleOpenScmChanges(r, Uri("/ws", name, "png"))

SpecCommand == Init /\ [][NextCommand]_vars

\* Several comparisons under way at once: each handler has awaited its file
\* contents (and, for compareWithPrevious, the previous version) and is about
\* to open its viewer; the continuations and callbacks run in any order.
Runs == 1..MaxConcurrent
CallCompare == [NoCall EXCEPT !.cmd = "compareWithPrevious", !.uri = WsPng]
CallDiffTool == [NoCall EXCEPT !.cmd = "openAsDiffTool", !.left = WsPng, !.right = OutPng]
\* The current and the previous content of one comparison.
ConcurrentInputs == { <<Png2, Png1>>, <<Png1, Png2>>, <<Jpeg, Png1>> }
ViewerInputs == ConcurrentInputs \cup { <<Png1, Png1>> }

InitConcurrent ==
  /\ workspaceFolders = {"/ws"}
  /\ nreq = MaxConcurrent
  /\ \E inp \in [Runs -> ConcurrentInputs], c \in [Runs -> {CallCompare, CallDiffTool}] :
       /\ call = c
       /\ pc = [r \in Runs |-> IF c[r] = CallCompare THEN "awaitRead" ELSE "awaitReadBoth"]
       /\ previousImageData = [r \in Runs |-> IF c[r] = CallCompare THEN inp[r][2] ELSE Null]
       /\ fileData = [r \in Runs |->
             IF c[r] = CallCompare
             THEN <<ReadFile(ReadOk(inp[r][1]))>>
             ELSE <<ReadFile(ReadOk(inp[r][2])), ReadFile(ReadOk(inp[r][1]))>>]
       /\ fsReads = [r \in Runs |-> IF c[r] = CallCompare THEN <<WsPng>> ELSE <<WsPng, OutPng>>]
       /\ gitRuns = [r \in Runs |->
             IF c[r] = CallCompare
             THEN LET v == GetVersion([filePath |-> WsPng, revision |-> "HEAD~1",
                                       workspaceRoot |-> "/ws"], GitOk(inp[r][2], 4096))
                  IN <<[command |-> v.command, outcome |-> GitOk(inp[r][2], 4096),
                        settled |-> v.settled, value |-> v.value]>>
             ELSE << >>]
       /\ consoleLog = [r \in Runs |-> IF c[r] = CallCompare
                                       THEN <<ConsoleLog("Executing")>> ELSE << >>]
  /\ gen = [r \in Runs |-> NoGen]
  /\ pending = [r \in Runs |-> NoPending]
  /\ panel = [r \in Runs |-> NoPanel]
  /\ notifications = [r \in Runs |-> << >>]
  /\ view = [r \in Runs |-> NoView]

NextConcurrent ==
  \E r \in Runs : CompareAfterRead(r) \/ DiffToolAfterRead(r) \/ SetHtml(r)

SpecConcurrent == InitConcurrent /\ [][NextConcurrent]_vars

\* One viewer and the events in it: handleCompareWithPrevious is about to
\* open the viewer on a pair of contents, one of them with a current image
\* that does not decode.
InitViewer ==
  /\ workspaceFolders = {"/ws"}
  /\ nreq = 1
  /\ pc = [r \in Reqs |-> IF r = 1 THEN "awaitRead" ELSE "idle"]
  /\ call = [r \in Reqs |-> IF r = 1 THEN CallCompare ELSE NoCall]
  /\ \E inp \in ViewerInputs :
       /\ previousImageData = [r \in Reqs |-> IF r = 1 THEN inp[2] ELSE Null]
       /\ fileData = [r \in Reqs |-> IF r = 1 THEN <<ReadFile(ReadOk(inp[1]))>> ELSE << >>]
       /\ gitRuns = [r \in Reqs |->
             IF r = 1
             THEN LET v == GetVersion([filePath |-> WsPng, revision |-> "HEAD~1",
                                       workspaceRoot |-> "/ws"], GitOk(inp[2], 4096))
                  IN <<[command |-> v.command, outcome |-> GitOk(inp[2], 4096),
                        settled |-> v.settled, value |-> v.value]>>
             ELSE << >>]
  /\ gen = [r \in Reqs |-> NoGen]
  /\ pending = [r \in Reqs |-> NoPending]
  /\ panel = [r \in Reqs |-> NoPanel]
  /\ notifications = [r \in Reqs |-> << >>]
  /\ consoleLog = [r \in Reqs |-> IF r = 1 THEN <<ConsoleLog("Executing")>> ELSE << >>]
  /\ fsReads = [r \in Reqs |-> IF r = 1 THEN <<WsPng>> ELSE << >>]
  /\ view = [r \in Reqs |-> NoView]

NextViewer ==
  \E r \in Reqs :
    \/ CompareAfterRead(r)
    \/ SetHtml(r)
    \/ \E button \in Buttons : ClickButton(r, button)
    \/ \E key \in Keys : KeyDown(r, key)
    \/ \E clientX \in ClientXs : SliderMouseDown(r, clientX)
    \/ \E clientX \in ClientXs : WrapperMouseDown(r, clientX)
    \/ \E clientX \in ClientXs : MouseMove(r, clientX)
    \/ MouseUp(r)

SpecViewer == InitViewer /\ [][NextViewer]_vars

\* ================================================================= claims
\* The bytes a comparison works on: the current and the previous version.
CurrentData(r) ==
  IF call[r].cmd = "openAsDiffTool" THEN fileData[r][2].value ELSE fileData[r][1].value
PreviousData(r) ==
  IF call[r].cmd = "openAsDiffTool" THEN fileData[r][1].value ELSE previousImageData[r]

\* generate has run for r.
Generated(r) == gen[r].settled # "none"
\* generate has run for r and both versions are PNG images.
BothDecoded(r) ==
  Generated(r) /\ CurrentData(r).fmt = "png" /\ PreviousData(r).fmt = "png"

\* C1: for every pair of decoded images the normalization step of generate
\* yields a current canvas, a previous canvas and a diff canvas that all have
\* the width max(a.width, b.width) and the height max(a.height, b.height).
C1_CanvasesHaveMaxDimensions ==
  \A r \in Reqs :
    BothDecoded(r) =>
      LET a == CurrentData(r)
          b == PreviousData(r)
          w == IF a.width >= b.width THEN a.width ELSE b.width
          h == IF a.height >= b.height THEN a.height ELSE b.height
      IN /\ gen[r].stage = "return"
         /\ \A img \in {gen[r].currentImg, gen[r].previousImg, gen[r].diffImg} :
              img.width = w /\ img.height = h

\* C1 witness: a narrower but taller current image has been normalized.
C1_Witness ==
  \E r \in Reqs :
    /\ BothDecoded(r) /\ gen[r].stage = "return"
    /\ CurrentData(r).width < PreviousData(r).width
    /\ CurrentData(r).height > PreviousData(r).height

\* The pixel an image contributes at index i of a canvas: its own pixel at
\* the same (x, y) inside its extent, all-zero RGBA outside.
TopLeftAnchored(png, canvas, i) ==
  LET x == (i - 1) % canvas.width
      y == (i - 1) \div canvas.width
  IN IF x < png.width /\ y < png.height
     THEN png.data[y * png.width + x + 1]
     ELSE <<0, 0, 0, 0>>

\* C2: after normalization every position (x, y) of the common canvas holds
\* the image's own pixel (x, y) when it lies inside the image and the all-zero
\* RGBA value otherwise, for the current and for the previous image alike.
C2_PixelsKeptAndPaddedTransparent ==
  \A r \in Reqs :
    BothDecoded(r) =>
      /\ gen[r].stage = "return"
      /\ \A i \in 1..Len(gen[r].currentImg.data) :
           gen[r].currentImg.data[i] = TopLeftAnchored(CurrentData(r), gen[r].currentImg, i)
      /\ \A i \in 1..Len(gen[r].previousImg.data) :
           gen[r].previousImg.data[i] = TopLeftAnchored(PreviousData(r), gen[r].previousImg, i)

\* C2 witness: an all-red previous image, narrower and lower than the current
\* one, sits on a canvas that has transparent padding.
C2_Witness ==
  \E r \in Reqs :
    /\ BothDecoded(r) /\ gen[r].stage = "return"
    /\ PreviousData(r).width < CurrentData(r).width
    /\ PreviousData(r).height < CurrentData(r).height
    /\ \A i \in 1..Len(PreviousData(r).data) : PreviousData(r).data[i] = Red
    /\ \E i \in 1..Len(gen[r].previousImg.data) : gen[r].previousImg.data[i] = Transparent

\* C7: whenever both images decode, the two buffers and the output buffer
\* given to pixelmatch have the same width and height and hold width*height
\* pixels (width*height*4 bytes) each, and pixelmatch does not reject them.
C7_DiffPreconditionHolds ==
  \A r \in Reqs :
    BothDecoded(r) =>
      /\ gen[r].stage \notin {"bitblt", "pixelmatch"}
      /\ \A img \in {gen[r].previousImg, gen[r].diffImg} :
           /\ img.width = gen[r].currentImg.width
           /\ img.height = gen[r].currentImg.height
      /\ \A img \in {gen[r].currentImg, gen[r].previousImg, gen[r].diffImg} :
           4 * Len(img.data) = img.width * img.height * 4

\* C7 witness: pixelmatch has run on images of different widths, on a canvas
\* that is not square.
C7_Witness ==
  \E r \in Reqs :
    /\ BothDecoded(r) /\ gen[r].stage = "return"
    /\ CurrentData(r).width # PreviousData(r).width
    /\ gen[r].currentImg.width # gen[r].currentImg.height

\* C10: an image compared against itself with the default options has a
\* differing-pixel count of 0 and a diff image without a highlighted pixel.
C10_SelfDiffIsEmpty ==
  \A r \in Reqs :
    (BothDecoded(r) /\ CurrentData(r) = PreviousData(r)) =>
      /\ gen[r].stage = "return"
      /\ gen[r].numDiffPixels = 0
      /\ \A i \in 1..Len(gen[r].diffImg.data) :
           gen[r].diffImg.data[i] \notin {<<255, 0, 0, 255>>, <<255, 255, 0, 255>>}

\* C10 witness: a 2x2 image holding red and transparent pixels has been
\* compared against itself.
C10_Witness ==
  \E r \in Reqs :
    /\ BothDecoded(r) /\ gen[r].stage = "return"
    /\ CurrentData(r) = PreviousData(r)
    /\ Len(CurrentData(r).data) = 4
    /\ \E i, j \in 1..4 : CurrentData(r).data[i] = Red /\ CurrentData(r).data[j] = Transparent

\* The first version retrieval of r has been awaited and found nothing.
VersionAwaited(r) == gitRuns[r] # << >> /\ pc[r] # "awaitVersion"
VersionNotFound(r) == VersionAwaited(r) /\ gitRuns[r][1].value = Null

C4_DecodeFailureKeepsBothImages ==
  \A r \in Reqs :
    (Generated(r) /\ ~BothDecoded(r)) =>
      /\ gen[r].settled = "fulfilled"
      /\ gen[r].value = NullUrl
      /\ notifications[r] = << >>
      /\ pc[r] \in {"awaitDiff", "done"}
      /\ pc[r] = "done" =>
           /\ panel[r].htmlSets = 1
           /\ panel[r].html.currentImage # NullUrl
           /\ panel[r].html.currentImage.base64 = CurrentData(r)
           /\ panel[r].html.previousImage # NullUrl
           /\ panel[r].html.previousImage.base64 = PreviousData(r)
           /\ panel[r].html.diffImage = NullUrl

\* C4 witness: a PNG has been compared with a JPEG at HEAD~1 and the page of
\* the panel has been set.
C4_Witness ==
  \E r \in Reqs :
    /\ pc[r] = "done" /\ Generated(r) /\ panel[r].htmlSets = 1
    /\ call[r].cmd = "compareWithPrevious"
    /\ CurrentData(r).fmt = "png" /\ PreviousData(r).fmt = "jpeg"

\* C5: getVersion never throws; it returns null for every failure of the
\* retrieval, a result above the 10 MiB cap included, and the retrieved bytes
\* only when the retrieval succeeded within the cap.
C5_GetVersionNeverThrows ==
  \A r \in Reqs : \A i \in 1..Len(gitRuns[r]) :
    LET g == gitRuns[r][i]
        within == g.outcome.kind = "ok" /\ g.outcome.size <= 10 * 1024 * 1024
    IN /\ g.settled = "fulfilled"
       /\ within => g.value = g.outcome.content /\ g.value # Null
       /\ ~within => g.value = Null

\* C5 witness: a retrieval printed one byte more than the cap and getVersion
\* returned null.
C5_Witness ==
  \E r \in Reqs :
    /\ gitRuns[r] # << >>
    /\ gitRuns[r][1].outcome.kind = "ok"
    /\ gitRuns[r][1].outcome.size = 10 * 1024 * 1024 + 1
    /\ gitRuns[r][1].value = Null

\* C6: when both images decode, the result of the comparison carries the
\* current payload, the previous payload, the diff payload and the
\* differing-pixel count the diff computed.
C6_ResultCarriesPixelCount ==
  \A r \in Reqs :
    (pc[r] = "done" /\ BothDecoded(r)) =>
      /\ panel[r].html.currentImage # NullUrl
      /\ panel[r].html.previousImage # NullUrl
      /\ panel[r].html.diffImage # NullUrl
      /\ "differingPixelCount" \in DOMAIN panel[r].html
      /\ panel[r].html.differingPixelCount = gen[r].numDiffPixels

\* The call of r is invalid caller input.
InvalidInput(r) ==
  LET c == call[r]
      image == c.uri.ext \in {"png", "jpg", "jpeg", "gif", "bmp", "webp"}
      noRoot == workspaceFolders = {} \/ c.uri.dir \notin workspaceFolders
  IN CASE c.cmd = "openAsDiffTool" -> c.left = Undefined \/ c.right = Undefined
       [] c.cmd = "openScmChanges" -> ~image \/ noRoot
       [] c.cmd = "compareWithPrevious" -> noRoot
       [] OTHER -> FALSE

\* Invalid caller input ends the command with one error message, before a
\* file is read, a version retrieved or a panel opened.
AbortsBeforePipeline(r) ==
  /\ pc[r] = "done"
  /\ Len(notifications[r]) = 1
  /\ notifications[r][1].level = "error"
  /\ fsReads[r] = << >>
  /\ gitRuns[r] = << >>
  /\ ~panel[r].created

C9_OneMessagePerFailure ==
  \A r \in Reqs :
    (pc[r] = "done" /\ (VersionNotFound(r) \/ (Generated(r) /\ ~BothDecoded(r))))
      => Len(notifications[r]) = 1

\* C9 as amended: a failed retrieval shows the user exactly one warning; a
\* decode error shows the user nothing: it is written to the console and the
\* viewer opens without the Difference mode.
C9_WarningForRetrievalConsoleForDecode ==
  \A r \in Reqs :
    /\ VersionNotFound(r) =>
         /\ Len(notifications[r]) = 1
         /\ notifications[r][1].level = "warning"
         /\ notifications[r][1].text =
              (IF call[r].cmd = "compareWithPrevious"
               THEN "Cannot retrieve previous version (HEAD~1) of this image from Git"
               ELSE "Cannot retrieve HEAD version of this image. This might be a new file.")
    /\ (Generated(r) /\ ~BothDecoded(r)) =>
         /\ notifications[r] = << >>
         /\ \E i \in 1..Len(consoleLog[r]) :
              consoleLog[r][i] = [level |-> "error", text |-> "Failed to generate diff image"]
         /\ pc[r] = "done" => ~panel[r].html.hasDiffMode

\* C9 witness: a comparison whose current file is a JPEG has ended with the
\* page set and nothing shown to the user.
C9_Witness ==
  \E r \in Reqs :
    /\ pc[r] = "done" /\ Generated(r) /\ CurrentData(r).fmt = "jpeg"
    /\ panel[r].htmlSets = 1 /\ notifications[r] = << >>

\* Position i of a canvas lies inside the extent of the image png.
InExtent(png, canvas, i) ==
  (i - 1) % canvas.width < png.width /\ (i - 1) \div canvas.width < png.height

\* The current image of r is at least as wide and as high as the previous
\* one and larger in one direction, and both hold the same pixels wherever
\* the previous image has one.
CurrentExtendsPrevious(r) ==
  LET a == CurrentData(r)
      b == PreviousData(r)
  IN /\ BothDecoded(r)
     /\ a.width >= b.width /\ a.height >= b.height
     /\ a.width * a.height > b.width * b.height
     /\ \A x \in 0..(b.width - 1), y \in 0..(b.height - 1) :
          a.data[y * a.width + x + 1] = b.data[y * b.width + x + 1]

\* The positions of the canvas outside the previous image: its padding.
PaddedRegion(r) ==
  { i \in 1..Len(gen[r].diffImg.data) : ~InExtent(PreviousData(r), gen[r].diffImg, i) }

\* The positions the diff classified as differing (drawn in the diff colour).
DifferingPixels(r) ==
  { i \in 1..Len(gen[r].diffImg.data) : gen[r].diffImg.data[i] = <<255, 0, 0, 255>> }

OwnPage(r) ==
  LET tool == call[r].cmd = "openAsDiffTool"
      currentPath == IF tool THEN call[r].right ELSE call[r].uri
      previousPath == IF tool THEN call[r].left ELSE call[r].uri
      diff == Generate(CurrentData(r), PreviousData(r)).value
  IN [currentImage |-> [mime |-> currentPath.ext, base64 |-> CurrentData(r)],
      previousImage |-> [mime |-> previousPath.ext, base64 |-> PreviousData(r)],
      diffImage |-> diff,
      currentLabel |-> IF call[r].cmd = "openScmChanges" THEN "Working Tree" ELSE "Current",
      previousLabel |-> CASE call[r].cmd = "compareWithPrevious" -> "Previous Commit (HEAD~1)"
                          [] call[r].cmd = "openScmChanges" -> "HEAD"
                          [] OTHER -> "Previous",
      hasDiffMode |-> diff # NullUrl]

\* C13: in every interleaving of concurrently running comparisons, and in
\* every order in which their diff generations complete, the page of each
\* viewer panel holds the current, previous and diff payloads and the labels
\* computed from the inputs of its own request, and a panel whose page is not
\* yet set holds nothing.
C13_PanelsHoldOwnPayloads ==
  \A r \in DOMAIN panel :
    /\ panel[r].htmlSets = 0 => panel[r].html = NoHtml
    /\ panel[r].htmlSets > 0 => panel[r].htmlSets = 1 /\ panel[r].html = OwnPage(r)
    /\ pc[r] = "done" => panel[r].htmlSets = 1

\* C13 witness: two comparisons of different images, started by different
\* commands, have both opened their viewers; the page of one has been set
\* while the callback of the other, the lower-numbered one, is still to run.
C13_Witness ==
  \E r \in DOMAIN panel : \E q \in DOMAIN panel :
    /\ r < q
    /\ panel[q].htmlSets = 1 /\ pc[r] = "awaitDiff"
    /\ CurrentData(r) # CurrentData(q) /\ PreviousData(r) # PreviousData(q)
    /\ call[r].cmd # call[q].cmd

\* C14: for every file name the command line that getVersion hands to the
\* shell is accepted by it and makes it run git with the two arguments show
\* and <revision>:<relative path of that file>, without expanding a
\* parameter and without running any other command.
C14_CommandReceivesExactPath ==
  \A r \in Reqs : \A i \in 1..Len(gitRuns[r]) :
    LET sh == ShParse(gitRuns[r][i].command.line)
        revision == IF call[r].cmd = "compareWithPrevious"
                    THEN <<"H", "E", "A", "D", "~", "1">>
                    ELSE <<"H", "E", "A", "D">>
        name == call[r].uri.base \o <<".">> \o Characters(call[r].uri.ext)
    IN /\ sh.ok
       /\ ~sh.expanded
       /\ sh.ran = << >>
       /\ sh.words = << <<"g", "i", "t">>, <<"s", "h", "o", "w">>,
                        revision \o <<":">> \o name >>

\* An event takes place in the page of a viewer.
ViewerEvent ==
  \E r \in Reqs :
    \/ \E button \in Buttons : ClickButton(r, button)
    \/ \E key \in Keys : KeyDown(r, key)
    \/ \E clientX \in ClientXs : SliderMouseDown(r, clientX) \/ WrapperMouseDown(r, clientX)
    \/ \E clientX \in ClientXs : MouseMove(r, clientX)
    \/ MouseUp(r)

\* C15: the mode selector of a viewer only ever holds sideBySide, slider or
\* diff, and no click on a button, key press or mouse event on the slider
\* changes the payloads or labels of the page, runs a retrieval, reads a
\* file or runs a diff computation.
C15_ModeSwitchIsViewStateOnly ==
  /\ [](\A r \in Reqs : view[r].currentMode \in {"sideBySide", "slider", "diff"})
  /\ [][ViewerEvent =>
          /\ panel' = panel
          /\ gen' = gen /\ pending' = pending
          /\ gitRuns' = gitRuns /\ fsReads' = fsReads
          /\ fileData' = fileData /\ previousImageData' = previousImageData
          /\ pc' = pc /\ nreq' = nreq]_vars

\* C15 witness: a viewer shows the difference after its slider has been
\* dragged to the right end, and its page still holds the three payloads.
C15_Witness ==
  \E r \in Reqs :
    /\ view[r].loaded /\ view[r].currentMode = "diff" /\ view[r].sliderLeft = 100
    /\ panel[r].htmlSets = 1 /\ panel[r].html = OwnPage(r)
    /\ panel[r].html.diffImage # NullUrl

\* The containers of a page that are displayed, and its buttons marked active.
VisibleContainers(v) ==
  { c \in {"sideBySideMode", "sliderMode", "diffMode"} : c \in v.elements /\ c \notin v.hidden }
ActiveButtons(v) ==
  { b \in {"sideBySideBtn", "sliderBtn", "diffBtn"} : b \in v.elements /\ b \in v.active }

\* C17: in a loaded viewer, at first and after any clicks and key presses,
\* exactly one mode container is displayed, the one of currentMode, and
\* exactly one toolbar button is active, the one of currentMode; a viewer
\* built without a diff image never has currentMode 'diff', and no handler
\* has dereferenced a missing element.
C17_OneVisibleContainer ==
  \A r \in Reqs :
    view[r].loaded =>
      LET v == view[r]
          container == CASE v.currentMode = "sideBySide" -> "sideBySideMode"
                         [] v.currentMode = "slider" -> "sliderMode"
                         [] v.currentMode = "diff" -> "diffMode"
                         [] OTHER -> "none"
          button == CASE v.currentMode = "sideBySide" -> "sideBySideBtn"
                      [] v.currentMode = "slider" -> "sliderBtn"
                      [] v.currentMode = "diff" -> "diffBtn"
                      [] OTHER -> "none"
      IN /\ VisibleContainers(v) = {container}
         /\ ActiveButtons(v) = {button}
         /\ panel[r].html.diffImage = NullUrl => v.currentMode # "diff"
         /\ ~v.threw

\* C17 witness: in a viewer built without a diff image the mode has been
\* switched to the slider.
C17_Witness ==
  \E r \in Reqs :
    /\ view[r].loaded /\ panel[r].html.diffImage = NullUrl
    /\ "diffMode" \notin view[r].elements
    /\ view[r].currentMode = "slider"

\* C18: the slider and the clip of the current image always stand at the same
\* percentage within 0..100; they move only in a step taken in slider mode
\* that leaves a drag in progress; every mouseup ends the drag; and a
\* mousemove while no drag is in progress moves nothing.
C18_SliderMovesOnlyWhileDragging ==
  /\ [](\A r \in Reqs : /\ view[r].sliderLeft \in 0..100
                        /\ view[r].clipLeft = view[r].sliderLeft)
  /\ [][\A r \in Reqs :
          (view'[r].sliderLeft # view[r].sliderLeft \/ view'[r].clipLeft # view[r].clipLeft) =>
            /\ view[r].currentMode = "slider" /\ view'[r].currentMode = "slider"
            /\ view'[r].isDragging]_vars
  /\ [][\A r \in Reqs : MouseUp(r) => ~view'[r].isDragging]_vars
  /\ [][\A r \in Reqs :
          (~view[r].isDragging /\ \E clientX \in ClientXs : MouseMove(r, clientX)) =>
            view'[r] = view[r]]_vars

\* C18 witness: a drag took the slider to the left end, the mode was then
\* switched away from the slider with the drag still in progress.
C18_Witness ==
  \E r \in Reqs :
    /\ view[r].loaded /\ view[r].isDragging
    /\ view[r].currentMode = "sideBySide" /\ view[r].sliderLeft = 0

\* C16: once openDiffViewer or openTwoFilesDiffViewer has created the panel
\* of an invocation, its page is eventually set, whether the diff generation
\* yields an image or null; the page is set at most once, it is set only
\* after the promise of generate is fulfilled, and that promise is never
\* rejected.
C16_PageEventuallySetOnce ==
  /\ \A r \in Reqs : [](panel[r].created => <>(panel[r].htmlSets = 1))
  /\ [](\A r \in Reqs : /\ panel[r].htmlSets <= 1
                        /\ gen[r].settled # "rejected"
                        /\ panel[r].htmlSets = 1 => panel[r].created)
  /\ [][\A r \in Reqs :
          panel'[r].htmlSets # panel[r].htmlSets =>
            /\ panel'[r].htmlSets = panel[r].htmlSets + 1
            /\ gen[r].settled = "fulfilled"]_vars

\* C16 witness: the panel of a two-file comparison has had its page set
\* after the diff generation failed.
C16_Witness ==
  \E r \in Reqs :
    /\ call[r].cmd = "openAsDiffTool"
    /\ panel[r].created /\ panel[r].htmlSets = 1
    /\ gen[r].settled = "fulfilled" /\ gen[r].stage = "read" /\ gen[r].value = NullUrl

====
